---- MODULE Spec2Model ----
(***************************************************************************)
(* Model of ViewPatternEditor (source/views/view_pattern_editor.cpp):      *)
(* the evaluation lifecycle driven by parsePattern and its detached        *)
(* background thread, the auto-run logic of drawContent, and the           *)
(* compatible-pattern scan of the EventFileLoaded handler.                 *)
(*                                                                         *)
(* The foreground (event handlers, drawContent, drawAlwaysVisible, the     *)
(* deferred calls) runs on one thread, so each handler is one action.      *)
(* Every statement of the detached thread is a step of its own, so it      *)
(* interleaves with the foreground and with other detached threads.        *)
(***************************************************************************)
EXTENDS Integers, Sequences, FiniteSets, TLC

\* ---------------------------------------------------------------- bounds
\* Number of evaluations (detached threads) ever scheduled in a behaviour.
MaxEvals == 2
\* Number of edits counted while an evaluation runs.
MaxEdits == 2
\* Number of entries of the patterns directory.
MaxFiles == 2
\* Length of a text handed to mTokenize or to the MIME pragma handler.
MaxLen == 3

\* --------------------------------------------------------------- inputs
\* Characters of a script text or a pragma value; "VT" is the vertical tab.
Whitespace == {" ", "\f", "\n", "\r", "\t", "VT"}

\* Contents the editor buffer, a pattern file or the project can hold:
\* empty, whitespace only, not blank.
Texts == {<< >>, <<"\n">>, <<"\n", "u">>}

\* The texts the evaluation lifecycle is driven with.
Scripts == {<< >>, <<"\n", "u">>}

\* No edit in this frame / the file cannot be opened.
None == <<"(none)">>

\* Content types magic::getMIMEType can report.
MimeTypes == {<<"t">>, <<"u">>}

\* Directory entries: a readable regular file with the values of its
\* "#pragma MIME <value>" lines in order, a non-regular entry, a regular
\* file that cannot be opened.
Entries ==
    {[kind |-> "file", pragmas |-> << >>],
     [kind |-> "file", pragmas |-> << <<"t">> >>],
     [kind |-> "file", pragmas |-> << <<"u">> >>],
     [kind |-> "file", pragmas |-> << <<"u">>, <<"t">> >>],
     [kind |-> "directory", pragmas |-> << >>],
     [kind |-> "unreadable", pragmas |-> << >>]}

\* Code handed to RequestAppendPatternLanguageCode.
Codes == {<< >>, <<"u">>}

SeqsUpTo(S, n) == UNION {[1..k -> S] : k \in 0..n}

\* Directory listings, in enumeration order.
Dirs == SeqsUpTo(Entries, MaxFiles)

Evals == 1..MaxEvals

\* Characters of the texts handed to mTokenize: blank and tab, letters, a
\* digit, underscore, the two quotes, the backslash, and "$".
Chars == {" ", "\t", "i", "f", "u", "8", "_", "'", "\"", "\\", "$"}

\* Texts between inBegin and inEnd.
Inputs == SeqsUpTo(Chars, MaxLen)

\* Characters of a "#pragma MIME" value, and the values.
ValueChars == {" ", "\n", "\r", "t", "u"}

Values == SeqsUpTo(ValueChars, MaxLen)

VARIABLES
    text,                     \* m_textEditor's text
    errorMarkers,             \* m_textEditor's error markers: 0, or the evaluation the diagnostic is of
    m_console,                \* 0 (empty), or the evaluation the log is of
    patternData,              \* SharedData::patternData: 0 (empty), or the evaluation the tree is of
    m_evaluatorRunning,
    m_hasUnevaluatedChanges,
    m_runAutomatically,
    m_possiblePatternFiles,   \* indices into the scanned directory
    m_selectedPatternFile,
    popupOpen,                \* the accept_pattern popup is open
    deferred,                 \* View::doLater calls not yet run
    providerValid,            \* ImHexApi::Provider::isValid()
    projectDirty,             \* ProjectFile::markDirty() was called
    nEvals,                   \* number of parsePattern calls so far
    pc,                       \* position of each detached thread
    buffer,                   \* each thread's captured copy of the script
    result,                   \* each thread's executeString result
    rtError,                  \* m_patternLanguageRuntime's error: 0, or the evaluation it is of
    rtConsole,                \* m_patternLanguageRuntime's log: 0, or the evaluation it is of
    notified,                 \* history: EventPatternChanged posts, per evaluation
    pendingEdits,             \* history: auto-run edits made while running, not yet followed up
    followedUp,               \* history: the number of such edits the last auto-run followed up
    fileLoaded,               \* history: the last EventFileLoaded handled: whether it
                              \* scanned, what its two guards read, and of the directory
                              \* scanned the number of entries, which of them are
                              \* readable files with a MIME pragma of the content type,
                              \* and which are not regular files or cannot be opened
    called                    \* history: the last call of a callback this view
                              \* registers (mTokenize, the MIME pragma handler) made
                              \* on its own, with its arguments and what it yielded

editorVars == <<text, m_hasUnevaluatedChanges, m_runAutomatically, projectDirty,
                pendingEdits, followedUp>>
scanVars == <<m_possiblePatternFiles, m_selectedPatternFile, fileLoaded>>
evalVars == <<errorMarkers, m_console, patternData, m_evaluatorRunning, nEvals, pc,
              buffer, notified>>
threadVars == <<result, rtError, rtConsole>>
vars == <<text, errorMarkers, m_console, patternData, m_evaluatorRunning,
          m_hasUnevaluatedChanges, m_runAutomatically, m_possiblePatternFiles,
          m_selectedPatternFile, popupOpen, deferred, providerValid, projectDirty,
          nEvals, pc, buffer, result, rtError, rtConsole, notified,
          pendingEdits, followedUp, fileLoaded, called>>

\* ------------------------------------------------------ pure functions
\* text.find_first_not_of of the six whitespace characters == std::string::npos
IsBlank(s) == \A i \in 1..Len(s) : s[i] \in Whitespace

\* std::all_of(value.begin(), value.end(), isspace)
AllSpace(value) == \A i \in 1..Len(value) : value[i] \in Whitespace

\* value.ends_with(c)
EndsWith(value, c) == Len(value) > 0 /\ value[Len(value)] = c

\* MimeHandler without the two ends_with tests.
MimeHandlerIgnoresLineEnd(value, mimeType, found) ==
    IF value = mimeType
    THEN [found |-> TRUE, ret |-> TRUE]
    ELSE [found |-> found, ret |-> ~AllSpace(value)]

\* The MIME pragma handler: [found |-> foundCorrectType afterwards,
\* ret |-> the handler's return value].
MimeHandler(value, mimeType, found) ==
    IF value = mimeType
    THEN [found |-> TRUE, ret |-> TRUE]
    ELSE [found |-> found,
          ret |-> ~AllSpace(value) /\ ~EndsWith(value, "\n") /\ ~EndsWith(value, "\r")]

\* preprocessor.preprocess(file.readString()): the handler is called with
\* the value of each MIME pragma of the file in order, until one call
\* returns false; yields foundCorrectType afterwards.
RECURSIVE Preprocess(_, _, _, _)
Preprocess(pragmas, i, mimeType, found) ==
    IF i > Len(pragmas) THEN found
    ELSE LET h == MimeHandler(pragmas[i], mimeType, found)
         IN IF h.ret THEN Preprocess(pragmas, i + 1, mimeType, h.found)
            ELSE h.found

\* ScanLoop with break in place of continue: an entry that is not a
\* regular file, or cannot be opened, ends the scan.
RECURSIVE ScanLoopStopsAtSkipped(_, _, _, _, _)
ScanLoopStopsAtSkipped(dir, i, mimeType, found, acc) ==
    IF i > Len(dir) THEN acc
    ELSE IF dir[i].kind # "file"
         THEN acc
         ELSE LET f == Preprocess(dir[i].pragmas, 1, mimeType, found)
              IN ScanLoopStopsAtSkipped(dir, i + 1, mimeType, f,
                                        IF f THEN Append(acc, i) ELSE acc)

\* The loop over the directory entries; foundCorrectType is declared once,
\* before the loop, and is carried from one file to the next.
RECURSIVE ScanLoop(_, _, _, _, _)
ScanLoop(dir, i, mimeType, found, acc) ==
    IF i > Len(dir) THEN acc
    ELSE IF dir[i].kind # "file"
         THEN ScanLoop(dir, i + 1, mimeType, found, acc)
         ELSE LET f == Preprocess(dir[i].pragmas, 1, mimeType, found)
              IN ScanLoop(dir, i + 1, mimeType, f,
                          IF f THEN Append(acc, i) ELSE acc)

\* m_possiblePatternFiles after the scan (foundCorrectType starts false).
ScanDirectory(dir, mimeType) == ScanLoop(dir, 1, mimeType, FALSE, << >>)

\* ------------------------------------------------ PatternLanguage()
\* langDef.mKeywords: the keywords array.
mKeywords ==
    {<<"u", "s", "i", "n", "g">>, <<"s", "t", "r", "u", "c", "t">>,
     <<"u", "n", "i", "o", "n">>, <<"e", "n", "u", "m">>,
     <<"b", "i", "t", "f", "i", "e", "l", "d">>, <<"b", "e">>, <<"l", "e">>,
     <<"i", "f">>, <<"e", "l", "s", "e">>, <<"f", "a", "l", "s", "e">>,
     <<"t", "r", "u", "e">>, <<"t", "h", "i", "s">>, <<"p", "a", "r", "e", "n", "t">>,
     <<"a", "d", "d", "r", "e", "s", "s", "o", "f">>, <<"s", "i", "z", "e", "o", "f">>,
     <<"$">>, <<"w", "h", "i", "l", "e">>, <<"f", "n">>,
     <<"r", "e", "t", "u", "r", "n">>, <<"n", "a", "m", "e", "s", "p", "a", "c", "e">>}

\* The keys of langDef.mIdentifiers: the builtInTypes array; each carries
\* the declaration "Built-in type".
mIdentifiers ==
    {<<"u", "8">>, <<"u", "1", "6">>, <<"u", "3", "2">>, <<"u", "6", "4">>,
     <<"u", "1", "2", "8">>, <<"s", "8">>, <<"s", "1", "6">>, <<"s", "3", "2">>,
     <<"s", "6", "4">>, <<"s", "1", "2", "8">>, <<"f", "l", "o", "a", "t">>,
     <<"d", "o", "u", "b", "l", "e">>, <<"c", "h", "a", "r">>,
     <<"c", "h", "a", "r", "1", "6">>, <<"b", "o", "o", "l">>,
     <<"p", "a", "d", "d", "i", "n", "g">>, <<"s", "t", "r">>}

\* isascii(c) && isblank(c)
Blank == {" ", "\t"}

Letters ==
    {"a", "b", "c", "d", "e", "f", "g", "h", "i", "j", "k", "l", "m",
     "n", "o", "p", "q", "r", "s", "t", "u", "v", "w", "x", "y", "z",
     "A", "B", "C", "D", "E", "F", "G", "H", "I", "J", "K", "L", "M",
     "N", "O", "P", "Q", "R", "S", "T", "U", "V", "W", "X", "Y", "Z"}

Digits == {"0", "1", "2", "3", "4", "5", "6", "7", "8", "9"}

\* A text s is a sequence of characters; a position p is an offset from
\* its start, so the character at p is s[p + 1] and inEnd is Len(s). Each
\* TokenizeCStyle function yields the token's end, or -1 for no match at p
\* (the token then begins at p).
NoMatch == -1

RECURSIVE RunEnd(_, _, _)
RunEnd(s, p, class) ==
    IF p < Len(s) /\ s[p + 1] \in class THEN RunEnd(s, p + 1, class) ELSE p

\* A letter or underscore, then letters, digits and underscores.
TokenizeCStyleIdentifier(s, p) ==
    IF p < Len(s) /\ s[p + 1] \in Letters \cup {"_"}
    THEN RunEnd(s, p + 1, Letters \cup Digits \cup {"_"})
    ELSE NoMatch

\* A numeric literal: digits.
TokenizeCStyleNumber(s, p) ==
    IF p < Len(s) /\ s[p + 1] \in Digits
    THEN RunEnd(s, p + 1, Digits)
    ELSE NoMatch

\* A quote, a character or a backslash and a character, a quote.
TokenizeCStyleCharacterLiteral(s, p) ==
    IF p < Len(s) /\ s[p + 1] = "'"
    THEN LET q == IF p + 1 < Len(s) /\ s[p + 2] = "\\" THEN p + 2 ELSE p + 1
         IN IF q + 1 < Len(s) /\ s[q + 2] = "'" THEN q + 2 ELSE NoMatch
    ELSE NoMatch

\* The end of a string literal whose next character is at p: the first
\* double quote that no backslash precedes.
RECURSIVE StringEnd(_, _)
StringEnd(s, p) ==
    IF p >= Len(s) THEN NoMatch
    ELSE IF s[p + 1] = "\"" THEN p + 1
    ELSE IF s[p + 1] = "\\" /\ p + 1 < Len(s) THEN StringEnd(s, p + 2)
    ELSE StringEnd(s, p + 1)

\* A double quote, characters (a backslash takes the next one), a double quote.
TokenizeCStyleString(s, p) ==
    IF p < Len(s) /\ s[p + 1] = "\"" THEN StringEnd(s, p + 1) ELSE NoMatch

\* SkipBlanks that steps over spaces only: a tab is not skipped.
RECURSIVE SkipSpaces(_, _)
SkipSpaces(s, p) ==
    IF p < Len(s) /\ s[p + 1] = " " THEN SkipSpaces(s, p + 1) ELSE p

\* while (inBegin < inEnd && isascii(*inBegin) && isblank(*inBegin)) inBegin++;
RECURSIVE SkipBlanks(_, _)
SkipBlanks(s, p) ==
    IF p < Len(s) /\ s[p + 1] \in Blank THEN SkipBlanks(s, p + 1) ELSE p

\* langDef.mTokenize on the text s (inBegin at 0, inEnd at Len(s)): its
\* return value, outBegin and outEnd (-1: not written) and paletteIndex.
mTokenize(s) ==
    LET inBegin == SkipBlanks(s, 0)
        inEnd == Len(s)
        token(end, index) ==
            [ret |-> TRUE, outBegin |-> inBegin, outEnd |-> end, paletteIndex |-> index]
    IN IF inBegin = inEnd
       THEN [ret |-> TRUE, outBegin |-> inEnd, outEnd |-> inEnd, paletteIndex |-> "Default"]
       ELSE IF TokenizeCStyleIdentifier(s, inBegin) # NoMatch
       THEN token(TokenizeCStyleIdentifier(s, inBegin), "Identifier")
       ELSE IF TokenizeCStyleNumber(s, inBegin) # NoMatch
       THEN token(TokenizeCStyleNumber(s, inBegin), "Number")
       ELSE IF TokenizeCStyleCharacterLiteral(s, inBegin) # NoMatch
       THEN token(TokenizeCStyleCharacterLiteral(s, inBegin), "CharLiteral")
       ELSE IF TokenizeCStyleString(s, inBegin) # NoMatch
       THEN token(TokenizeCStyleString(s, inBegin), "String")
       ELSE [ret |-> FALSE, outBegin |-> -1, outEnd |-> -1, paletteIndex |-> "Max"]

\* The editor's lookup of an Identifier token in the language definition's
\* tables: a keyword, else a known identifier (a built-in type), else an
\* identifier; any other token keeps its palette index.
Category(s, tok) ==
    IF tok.paletteIndex = "Identifier"
    THEN LET id == SubSeq(s, tok.outBegin + 1, tok.outEnd)
         IN IF id \in mKeywords THEN "Keyword"
            ELSE IF id \in mIdentifiers THEN "BuiltinType"
            ELSE "Identifier"
    ELSE tok.paletteIndex

\* --------------------------------------------------------------- Init
Init ==
    /\ text = << >>
    /\ errorMarkers = 0
    /\ m_console = 0
    /\ patternData = 0
    /\ m_evaluatorRunning = FALSE
    /\ m_hasUnevaluatedChanges = FALSE
    /\ m_runAutomatically = FALSE
    /\ m_possiblePatternFiles = << >>
    /\ m_selectedPatternFile = 0
    /\ popupOpen = FALSE
    /\ deferred = << >>
    /\ providerValid = FALSE
    /\ projectDirty = FALSE
    /\ nEvals = 0
    /\ pc = [e \in Evals |-> "unused"]
    /\ buffer = [e \in Evals |-> << >>]
    /\ result = [e \in Evals |-> "none"]
    /\ rtError = 0
    /\ rtConsole = 0
    /\ notified = [e \in Evals |-> << >>]
    /\ pendingEdits = 0
    /\ followedUp = 0
    /\ fileLoaded = [ran |-> FALSE, blank |-> FALSE, valid |-> FALSE,
                     entries |-> 0, declaring |-> {}, skipped |-> {}]
    /\ called = [fn |-> "none"]

\* ------------------------------------------------------- parsePattern
\* clearPatternData(): every node is deleted and the vector is emptied.
ClearPatternData == 0

\* CapturedBuffer with the capture left default-constructed: the thread
\* gets an empty string instead of a copy of the script.
CapturedBufferEmpty(script) == << >>

\* The lambda's init-capture buffer = std::string(buffer): the script is
\* copied into the closure on the calling thread, before the thread exists.
CapturedBuffer(script) == script

\* parsePattern(buffer), the part that runs on the calling thread: the
\* flag is set, tree, markers and console are cleared, EventPatternChanged
\* is posted, and the thread is created with its own copy of the script.
ParsePattern(script) ==
    LET e == nEvals + 1
    IN /\ nEvals < MaxEvals
       /\ nEvals' = e
       /\ m_evaluatorRunning' = TRUE
       /\ patternData' = ClearPatternData
       /\ errorMarkers' = 0
       /\ m_console' = 0
       /\ notified' = [notified EXCEPT ![e] = Append(@, "schedule")]
       /\ buffer' = [buffer EXCEPT ![e] = CapturedBuffer(script)]
       /\ pc' = [pc EXCEPT ![e] = "execute"]

\* ------------------------------------------- the detached thread's steps
\* executeString(provider, buffer): the interpreter yields a tree or no
\* tree, and leaves its error (on failure) and its log in the runtime.
BgExecuteString(e, outcome) ==
    /\ pc[e] = "execute"
    /\ result' = [result EXCEPT ![e] = outcome]
    /\ rtError' = IF outcome = "error" THEN e ELSE 0
    /\ rtConsole' = e
    /\ pc' = [pc EXCEPT ![e] = "error"]
    /\ UNCHANGED <<called, editorVars, scanVars, popupOpen, deferred, providerValid,
                   errorMarkers, m_console, patternData, m_evaluatorRunning,
                   nEvals, buffer, notified>>

\* getError(); if it has a value, SetErrorMarkers({ error.value() }).
BgSetErrorMarkers(e) ==
    /\ pc[e] = "error"
    /\ errorMarkers' = IF rtError # 0 THEN rtError ELSE errorMarkers
    /\ pc' = [pc EXCEPT ![e] = "console"]
    /\ UNCHANGED <<called, editorVars, scanVars, popupOpen, deferred, providerValid,
                   m_console, patternData, m_evaluatorRunning, nEvals, buffer,
                   notified, threadVars>>

\* m_console = getConsoleLog().
BgSetConsole(e) ==
    /\ pc[e] = "console"
    /\ m_console' = rtConsole
    /\ pc' = [pc EXCEPT ![e] = "result"]
    /\ UNCHANGED <<called, editorVars, scanVars, popupOpen, deferred, providerValid,
                   errorMarkers, patternData, m_evaluatorRunning, nEvals, buffer,
                   notified, threadVars>>

\* BgStoreResult with the deferred post outside the if: it is made
\* whether or not a tree was produced.
BgStoreResultAlwaysPosts(e) ==
    /\ pc[e] = "result"
    /\ patternData' = IF result[e] = "tree" THEN e ELSE patternData
    /\ deferred' = Append(deferred, <<"notify", e>>)
    /\ pc' = [pc EXCEPT ![e] = "finish"]
    /\ UNCHANGED <<called, editorVars, scanVars, popupOpen, providerValid, errorMarkers,
                   m_console, m_evaluatorRunning, nEvals, buffer, notified, threadVars>>

\* if (result.has_value()): the tree is moved into SharedData::patternData
\* and the post of EventPatternChanged is handed to View::doLater.
BgStoreResult(e) ==
    /\ pc[e] = "result"
    /\ IF result[e] = "tree"
       THEN /\ patternData' = e
            /\ deferred' = Append(deferred, <<"notify", e>>)
       ELSE UNCHANGED <<patternData, deferred>>
    /\ pc' = [pc EXCEPT ![e] = "finish"]
    /\ UNCHANGED <<called, editorVars, scanVars, popupOpen, providerValid, errorMarkers,
                   m_console, m_evaluatorRunning, nEvals, buffer,
                   notified, threadVars>>

\* BgFinish with the reset of the flag inside the if (result.has_value())
\* block: a failed evaluation ends without resetting it.
BgFinishResetsOnSuccess(e) ==
    /\ pc[e] = "finish"
    /\ m_evaluatorRunning' = IF result[e] = "tree" THEN FALSE ELSE m_evaluatorRunning
    /\ pc' = [pc EXCEPT ![e] = "done"]
    /\ buffer' = [buffer EXCEPT ![e] = << >>]
    /\ UNCHANGED <<called, editorVars, scanVars, popupOpen, deferred, providerValid,
                   errorMarkers, m_console, patternData, nEvals, notified, threadVars>>

\* m_evaluatorRunning = false; the thread ends and its captured copy of
\* the script is destroyed.
BgFinish(e) ==
    /\ pc[e] = "finish"
    /\ m_evaluatorRunning' = FALSE
    /\ pc' = [pc EXCEPT ![e] = "done"]
    /\ buffer' = [buffer EXCEPT ![e] = << >>]
    /\ UNCHANGED <<called, editorVars, scanVars, popupOpen, deferred, providerValid,
                   errorMarkers, m_console, patternData, nEvals, notified, threadVars>>

\* ------------------------------------------------ foreground handlers
\* AfterTextChanged with the edit noted only while no evaluation runs.
AfterTextChangedWhenIdle(flag, changed, auto) ==
    flag \/ (changed /\ auto /\ ~m_evaluatorRunning)

\* if (IsTextChanged()) { if (m_runAutomatically) m_hasUnevaluatedChanges = true; }
AfterTextChanged(flag, changed, auto) == flag \/ (changed /\ auto)

\* EvaluateButton without ImGui::Disabled: a press counts while running.
EvaluateButtonEnabled(click, running) == click

\* ImGui::Disabled(..., m_evaluatorRunning) around the evaluate button: a
\* press is taken only while no evaluation runs.
EvaluateButton(click, running) == click /\ ~running

\* AutoRunDue without the test of m_evaluatorRunning.
AutoRunDueWhileRunning(flag, running) == flag

\* The guard of the auto-run block of drawContent.
AutoRunDue(flag, running) == flag /\ ~running

\* m_hasUnevaluatedChanges after the auto-run block has been entered.
AutoRunClearedFlag == FALSE

\* drawContent(), one frame with a valid, available provider. The editor is
\* rendered (edit: the text the user's edit of this frame leaves, or None),
\* the evaluate button is drawn (click; disabled while running), then the
\* spinner or the auto checkbox (toggle), then the text-changed and the
\* auto-run blocks.
DrawContent(click, toggle, edit) ==
    /\ providerValid
    /\ edit # text
    /\ LET newText == IF edit = None THEN text ELSE edit
           changed == edit # None
           manual == EvaluateButton(click, m_evaluatorRunning)
           running1 == m_evaluatorRunning \/ manual
           toggled == toggle /\ ~running1
           auto1 == IF toggled THEN ~m_runAutomatically ELSE m_runAutomatically
           flag1 == m_hasUnevaluatedChanges \/ (toggled /\ auto1)
           flag2 == AfterTextChanged(flag1, changed, auto1)
           autoRun == AutoRunDue(flag2, running1)
           counted == changed /\ auto1 /\ m_evaluatorRunning
       IN /\ counted => pendingEdits < MaxEdits
          /\ text' = newText
          /\ m_runAutomatically' = auto1
          /\ m_hasUnevaluatedChanges' = IF autoRun THEN AutoRunClearedFlag ELSE flag2
          /\ projectDirty' = (projectDirty \/ autoRun)
          /\ pendingEdits' = IF autoRun THEN 0
                             ELSE IF counted THEN pendingEdits + 1
                             ELSE pendingEdits
          /\ followedUp' = IF autoRun THEN pendingEdits ELSE followedUp
          /\ IF manual THEN ParsePattern(newText)
             ELSE IF autoRun THEN ParsePattern(newText)
             ELSE UNCHANGED evalVars
    /\ UNCHANGED <<called, scanVars, popupOpen, deferred, providerValid, threadVars>>

\* loadPatternFile(path): nothing if the file cannot be opened (None);
\* else parsePattern(buffer) and then SetText(buffer).
LoadPatternFile(content) ==
    IF content = None
    THEN UNCHANGED <<text, evalVars>>
    ELSE /\ ParsePattern(content)
         /\ text' = content

\* File > Load pattern..., the file browser's callback.
MenuLoadPattern(content) ==
    /\ content # None
    /\ LoadPatternFile(content)
    /\ UNCHANGED <<called, m_hasUnevaluatedChanges, m_runAutomatically, projectDirty,
                   pendingEdits, followedUp, scanVars, popupOpen, deferred,
                   providerValid, threadVars>>

\* EventProjectFileLoad: SetText(ProjectFile::getPattern()), parsePattern.
EventProjectFileLoad(pattern) ==
    /\ text' = pattern
    /\ ParsePattern(pattern)
    /\ UNCHANGED <<called, m_hasUnevaluatedChanges, m_runAutomatically, projectDirty,
                   pendingEdits, followedUp, scanVars, popupOpen, deferred,
                   providerValid, threadVars>>

\* RequestAppendPatternLanguageCode: InsertText("\n"), InsertText(code).
RequestAppendPatternLanguageCode(code) ==
    /\ text \o <<"\n">> \o code \in Texts
    /\ text' = text \o <<"\n">> \o code
    /\ UNCHANGED <<called, m_hasUnevaluatedChanges, m_runAutomatically, projectDirty,
                   pendingEdits, followedUp, scanVars, popupOpen, deferred,
                   providerValid, evalVars, threadVars>>

\* The entry is a readable regular file with a MIME pragma of this value.
Declares(entry, mimeType) ==
    /\ entry.kind = "file"
    /\ \E k \in 1..Len(entry.pragmas) : entry.pragmas[k] = mimeType

\* EventFileLoaded: return if the text is not blank; return if
\* ImHexApi::Provider::isValid(); else scan the patterns directory and, if
\* a file was recorded, select the first and ask for the popup. With no
\* valid provider the content type read from it is any of MimeTypes.
EventFileLoaded(dir, mimeType) ==
    LET scans == IsBlank(text) /\ ~providerValid
        files == ScanDirectory(dir, mimeType)
    IN /\ fileLoaded' = [ran |-> scans, blank |-> IsBlank(text), valid |-> providerValid,
                         entries |-> IF scans THEN Len(dir) ELSE 0,
                         declaring |-> IF scans
                                       THEN {i \in 1..Len(dir) : Declares(dir[i], mimeType)}
                                       ELSE {},
                         skipped |-> IF scans
                                     THEN {i \in 1..Len(dir) : dir[i].kind # "file"}
                                     ELSE {}]
       /\ IF scans
          THEN /\ m_possiblePatternFiles' = files
               /\ IF files # << >>
                  THEN /\ m_selectedPatternFile' = 0
                       /\ deferred' = IF \E i \in 1..Len(deferred) : deferred[i][1] = "popup"
                                      THEN deferred
                                      ELSE Append(deferred, <<"popup", 0>>)
                  ELSE UNCHANGED <<m_selectedPatternFile, deferred>>
          ELSE UNCHANGED <<m_possiblePatternFiles, m_selectedPatternFile, deferred>>
       /\ UNCHANGED <<called, editorVars, popupOpen, providerValid, evalVars, threadVars>>

\* The deferred calls are run by the main loop, in order, once per frame.
RECURSIVE RunNotifications(_, _, _)
RunNotifications(calls, i, n) ==
    IF i > Len(calls) THEN n
    ELSE RunNotifications(calls, i + 1,
            IF calls[i][1] = "notify"
            THEN [n EXCEPT ![calls[i][2]] = Append(@, "completion")]
            ELSE n)

ProcessDeferredCalls ==
    /\ deferred # << >>
    /\ notified' = RunNotifications(deferred, 1, notified)
    /\ popupOpen' = (popupOpen \/ \E i \in 1..Len(deferred) : deferred[i][1] = "popup")
    /\ deferred' = << >>
    /\ UNCHANGED <<called, editorVars, scanVars, providerValid, errorMarkers, m_console,
                   patternData, m_evaluatorRunning, nEvals, pc, buffer,
                   threadVars>>

\* drawAlwaysVisible(), the accept_pattern popup: the list box selects an
\* entry of the list.
PopupSelect(i) ==
    /\ popupOpen
    /\ i \in 0..(Len(m_possiblePatternFiles) - 1)
    /\ i # m_selectedPatternFile
    /\ m_selectedPatternFile' = i
    /\ UNCHANGED <<called, editorVars, m_possiblePatternFiles, fileLoaded, popupOpen, deferred,
                   providerValid, evalVars, threadVars>>

\* "Yes": loadPatternFile(m_possiblePatternFiles[m_selectedPatternFile]),
\* CloseCurrentPopup().
PopupConfirm(content) ==
    /\ popupOpen
    /\ LoadPatternFile(content)
    /\ popupOpen' = FALSE
    /\ UNCHANGED <<called, m_hasUnevaluatedChanges, m_runAutomatically, projectDirty,
                   pendingEdits, followedUp, scanVars, deferred, providerValid,
                   threadVars>>

\* "No" or Escape: CloseCurrentPopup().
PopupDismiss ==
    /\ popupOpen
    /\ popupOpen' = FALSE
    /\ UNCHANGED <<called, editorVars, scanVars, deferred, providerValid, evalVars, threadVars>>

\* A data source is opened or closed.
SetProvider(valid) ==
    /\ valid # providerValid
    /\ providerValid' = valid
    /\ UNCHANGED <<called, editorVars, scanVars, popupOpen, deferred, evalVars, threadVars>>

\* The editor colours a line: it calls mTokenize on the text and looks an
\* Identifier token up in the tables. A behaviour follows one call.
Colorize(input) ==
    /\ called.fn = "none"
    /\ called' = [fn |-> "mTokenize", input |-> input, tok |-> mTokenize(input),
                  category |-> Category(input, mTokenize(input))]
    /\ UNCHANGED <<editorVars, scanVars, popupOpen, deferred, providerValid,
                   evalVars, threadVars>>

\* The preprocessor meets a "#pragma MIME value" line and calls the handler;
\* found is foundCorrectType before the call. A behaviour follows one call.
PragmaMIME(value, mimeType, found) ==
    /\ called.fn = "none"
    /\ called' = [fn |-> "MIME", value |-> value, mimeType |-> mimeType,
                  before |-> found,
                  found |-> MimeHandler(value, mimeType, found).found,
                  ret |-> MimeHandler(value, mimeType, found).ret]
    /\ UNCHANGED <<editorVars, scanVars, popupOpen, deferred, providerValid,
                   evalVars, threadVars>>

\* ---------------------------------------------------- specification
\* The evaluation lifecycle: every caller of parsePattern but the popup's
\* (which calls loadPatternFile like the menu does), and the threads.
Next ==
    \/ \E click, toggle \in BOOLEAN, edit \in Scripts \cup {None} :
          DrawContent(click, toggle, edit)
    \/ \E content \in Scripts : MenuLoadPattern(content)
    \/ \E pattern \in Scripts : EventProjectFileLoad(pattern)
    \/ \E code \in Codes \ {<< >>} : RequestAppendPatternLanguageCode(code)
    \/ ProcessDeferredCalls
    \/ \E valid \in BOOLEAN : SetProvider(valid)
    \/ \E e \in Evals, outcome \in {"tree", "error"} : BgExecuteString(e, outcome)
    \/ \E e \in Evals : BgSetErrorMarkers(e)
    \/ \E e \in Evals : BgSetConsole(e)
    \/ \E e \in Evals : BgStoreResult(e)
    \/ \E e \in Evals : BgFinish(e)

Spec == Init /\ [][Next]_vars

\* One detached thread; the scheduler runs every thread that can step.
Thread(e) ==
    \/ \E outcome \in {"tree", "error"} : BgExecuteString(e, outcome)
    \/ BgSetErrorMarkers(e)
    \/ BgSetConsole(e)
    \/ BgStoreResult(e)
    \/ BgFinish(e)

\* The lifecycle with every caller of parsePattern (button, auto-run
\* through the checkbox, load file, project load) and no edits of the text.
NextFair ==
    \/ \E click, toggle \in BOOLEAN : DrawContent(click, toggle, None)
    \/ \E content \in Scripts : MenuLoadPattern(content)
    \/ \E pattern \in Scripts : EventProjectFileLoad(pattern)
    \/ ProcessDeferredCalls
    \/ \E valid \in BOOLEAN : SetProvider(valid)
    \/ \E e \in Evals, outcome \in {"tree", "error"} : BgExecuteString(e, outcome)
    \/ \E e \in Evals : BgSetErrorMarkers(e)
    \/ \E e \in Evals : BgSetConsole(e)
    \/ \E e \in Evals : BgStoreResult(e)
    \/ \E e \in Evals : BgFinish(e)

FairSpec == Init /\ [][NextFair]_vars /\ \A e \in Evals : WF_vars(Thread(e))

\* The scan and its popup: the file-loaded event over every directory
\* listing, the popup's actions, and what changes the scan's two guards.
\* The threads that the popup's loadPatternFile starts take no step here:
\* they write none of the scan's state.
NextScan ==
    \/ \E dir \in Dirs, mimeType \in MimeTypes : EventFileLoaded(dir, mimeType)
    \/ ProcessDeferredCalls
    \/ \E i \in 0..(MaxFiles - 1) : PopupSelect(i)
    \/ \E content \in Texts \cup {None} : PopupConfirm(content)
    \/ PopupDismiss
    \/ \E valid \in BOOLEAN : SetProvider(valid)
    \/ \E code \in Codes : RequestAppendPatternLanguageCode(code)

ScanSpec == Init /\ [][NextScan]_vars

\* The scan up to its popup: the file-loaded event over every directory
\* listing, the deferred opening of the popup and its dismissal, and what
\* changes the scan's two guards; no pattern file is loaded.
NextDirectory ==
    \/ \E dir \in Dirs, mimeType \in MimeTypes : EventFileLoaded(dir, mimeType)
    \/ ProcessDeferredCalls
    \/ PopupDismiss
    \/ \E valid \in BOOLEAN : SetProvider(valid)
    \/ \E code \in Codes : RequestAppendPatternLanguageCode(code)

DirectorySpec == Init /\ [][NextDirectory]_vars

\* The two callbacks the view hands out, called with every text.
NextCallback ==
    \/ \E input \in Inputs : Colorize(input)
    \/ \E value \in Values, mimeType \in MimeTypes, found \in BOOLEAN :
          PragmaMIME(value, mimeType, found)

CallbackSpec == Init /\ [][NextCallback]_vars

\* ------------------------------------------------------------ claims
\* A thread between its creation and its last statement.
Active == {"execute", "error", "console", "result", "finish"}

Scheduled == 1..nEvals

\* No deferred EventPatternChanged post of evaluation e is waiting.
NoPostWaiting(e) == \A i \in 1..Len(deferred) : deferred[i] # <<"notify", e>>

\* C1: at most one background evaluation is running at any time, whatever
\* the sequence of requests (button, auto-run, project load, load file).
C1_AtMostOneRunning == Cardinality({e \in Evals : pc[e] \in Active}) <= 1

\* C2: with auto-run on, the edits made while an evaluation runs (one or
\* more) stay pending in m_hasUnevaluatedChanges; they are discharged only
\* by a frame that finds the evaluator not running, and that frame
\* schedules exactly one evaluation for all of them and leaves none
\* pending; a frame without a button press that finds edits pending and
\* the evaluator not running is such a frame.
C2_OneFollowUp ==
    /\ [](pendingEdits >= 1 => m_hasUnevaluatedChanges /\ m_runAutomatically)
    /\ [][pendingEdits >= 1 =>
            \/ pendingEdits' >= pendingEdits /\ m_hasUnevaluatedChanges'
            \/ /\ ~m_evaluatorRunning
               /\ nEvals' = nEvals + 1
               /\ pendingEdits' = 0
               /\ followedUp' = pendingEdits
               /\ ~m_hasUnevaluatedChanges']_vars
    /\ [][(/\ pendingEdits >= 1
           /\ ~m_evaluatorRunning
           /\ \E toggle \in BOOLEAN, edit \in Scripts \cup {None} :
                 DrawContent(FALSE, toggle, edit))
          => nEvals' = nEvals + 1 /\ pendingEdits' = 0 /\ ~m_hasUnevaluatedChanges']_vars

\* Two edits were made during the first run, and one evaluation, the
\* second, followed them up; nothing is left pending.
C2_Witness ==
    /\ followedUp = MaxEdits
    /\ nEvals = 2
    /\ pc[1] = "done"
    /\ pc[2] = "execute"
    /\ ~m_hasUnevaluatedChanges

\* C3: from the start of an evaluation's thread to that thread's first
\* write, the tree, the error markers and the console are empty.
C3_ClearedUntilFirstWrite ==
    \A e \in Evals :
        pc[e] \in {"execute", "error"} =>
            patternData = 0 /\ errorMarkers = 0 /\ m_console = 0

\* C4: the tree is empty or the tree of the most recently scheduled
\* evaluation, which succeeded.
C4_TreeOfLastScheduled ==
    patternData # 0 => patternData = nEvals /\ result[nEvals] = "tree"

\* C5: when m_evaluatorRunning is false, every scheduled evaluation has
\* recorded its diagnostic, its log and its tree.
C5_IdleMeansPublished ==
    ~m_evaluatorRunning => \A e \in Scheduled : pc[e] \in {"finish", "done"}

\* C6: when the most recently scheduled evaluation has completed and
\* failed, the tree is empty and a diagnostic is present.
C6_FailedRunLeavesNoTree ==
    (nEvals >= 1 /\ pc[nEvals] = "done" /\ result[nEvals] = "error")
        => patternData = 0 /\ errorMarkers # 0

\* C7: every scheduled evaluation, successful or failed, reaches the end
\* of its thread, and the step that ends it leaves m_evaluatorRunning
\* false, the state in which the evaluate button and the auto-run block
\* schedule again.
C7_RunningReturnsToFalse ==
    /\ \A e \in Evals : (pc[e] \in Active) ~> (pc[e] = "done")
    /\ [][\A e \in Evals :
            (pc[e] \in Active /\ pc'[e] = "done") => ~m_evaluatorRunning']_vars

\* A failed evaluation has ended and the evaluator is not running.
C7_Witness ==
    \E e \in Evals : pc[e] = "done" /\ result[e] = "error" /\ ~m_evaluatorRunning

\* C8 as claimed: every completed evaluation has been notified exactly
\* twice, at schedule time and then at completion time.
C8_TwoNotifications ==
    \A e \in Evals :
        (pc[e] = "done" /\ NoPostWaiting(e)) => notified[e] = <<"schedule", "completion">>

\* C8 as amended: every evaluation is notified at schedule time, before its
\* thread starts; an evaluation that produced a tree is notified exactly
\* once more, by the deferred call run after the tree is stored; a failed
\* evaluation is notified at schedule time only.
C8_NotificationsByOutcome ==
    \A e \in Evals :
        /\ pc[e] # "unused" => Len(notified[e]) >= 1 /\ notified[e][1] = "schedule"
        /\ pc[e] \in {"unused", "execute", "error", "console", "result"}
              => Len(notified[e]) <= 1
        /\ (pc[e] = "done" /\ NoPostWaiting(e)) =>
              notified[e] = IF result[e] = "tree"
                            THEN <<"schedule", "completion">>
                            ELSE <<"schedule">>

\* A failed and a successful evaluation have both completed and the
\* deferred calls have run.
C8_Witness ==
    /\ pc[1] = "done" /\ result[1] = "error" /\ notified[1] = <<"schedule">>
    /\ pc[2] = "done" /\ result[2] = "tree"
    /\ notified[2] = <<"schedule", "completion">>
    /\ deferred = << >>

\* The entries the scan recorded.
Recorded == {m_possiblePatternFiles[k] : k \in 1..Len(m_possiblePatternFiles)}

\* C9: the scan records an entry if and only if it is a readable file
\* with a MIME pragma of the active content type.
C9_RecordsExactlyDeclaring == fileLoaded.ran => Recorded = fileLoaded.declaring

\* C10: the scan runs if and only if the buffer is blank and a data
\* source is loaded.
C10_ScanGuard == fileLoaded.ran <=> (fileLoaded.blank /\ fileLoaded.valid)

\* C15: an entry that is not a regular file, or cannot be opened, is never
\* recorded and does not end the scan: every readable file declaring the
\* content type is recorded whatever entries come before it; and a scan of
\* a directory in which no readable file declares the content type (an
\* unreadable entry and a non-matching script, say) leaves the list empty
\* and asks for no popup.
C15_SkipsUnreadableEntries ==
    /\ [](fileLoaded.ran =>
            /\ Recorded \cap fileLoaded.skipped = {}
            /\ fileLoaded.declaring \subseteq Recorded
            /\ fileLoaded.declaring = {} => m_possiblePatternFiles = << >>)
    /\ [][(fileLoaded' # fileLoaded /\ fileLoaded'.ran /\ fileLoaded'.declaring = {})
            => deferred' = deferred /\ popupOpen' = popupOpen]_vars

\* The directory scanned last has two entries, the first one skipped and
\* the second one a readable file that does not declare the content type;
\* nothing is recorded and no popup is open or asked for.
C15_Witness ==
    /\ fileLoaded.ran
    /\ fileLoaded.entries = 2
    /\ fileLoaded.skipped = {1}
    /\ fileLoaded.declaring = {}
    /\ m_possiblePatternFiles = << >>
    /\ ~popupOpen
    /\ deferred = << >>

\* A thread at one of its writes of the markers, the console or the tree.
Writing == {"error", "console", "result"}

\* C11: the foreground's clearing of the tree, the error markers and the
\* console (parsePattern) is never executed while a background thread is
\* at its writes of the markers, the console or the tree.
C11_ClearSerializedWithWrites ==
    [][nEvals' # nEvals => \A e \in Evals : pc[e] \notin Writing]_vars

\* C12: whenever a tree is stored, the store is empty: the tree stored
\* before it has been released by clearPatternData, so the assignment
\* drops no tree that is still allocated.
C12_StoreReplacesNoTree ==
    [][(patternData' # patternData /\ patternData' # 0) => patternData = 0]_vars

\* C13: when every scheduled evaluation has completed, the published state
\* is either the last evaluation's tree with no diagnostic, or no tree with
\* a diagnostic; and the console holds the last evaluation's log.
C13_TreeXorDiagnostic ==
    (nEvals >= 1 /\ \A e \in Scheduled : pc[e] = "done") =>
        /\ \/ patternData = nEvals /\ errorMarkers = 0
           \/ patternData = 0 /\ errorMarkers # 0
        /\ m_console = nEvals

\* C14: the text a thread evaluates is the text passed with the request
\* (which is the editor's text once the requesting handler returns), and no
\* step taken while the thread is in executeString, an edit of the editor's
\* text or the caller's release of its buffer included, changes it.
C14_EvaluatesRequestedText ==
    /\ [][nEvals' = nEvals + 1 => buffer'[nEvals'] = text']_vars
    /\ [][\A e \in Evals : pc[e] = "execute" => buffer'[e] = buffer[e]]_vars

\* A thread is in executeString with a script that the editor's text no
\* longer equals: the text was edited after the request.
C14_Witness ==
    \E e \in Evals : pc[e] = "execute" /\ buffer[e] # << >> /\ buffer[e] # text

\* The number of leading blanks and tabs of s.
LeadingBlanks(s) ==
    CHOOSE n \in 0..Len(s) :
        /\ \A i \in 1..n : s[i] \in {" ", "\t"}
        /\ n = Len(s) \/ s[n + 1] \notin {" ", "\t"}

\* C16: mTokenize skips the leading blanks and tabs; at the end of the
\* input it yields Default with an empty span at the end; else the first
\* of identifier, number, character literal, string literal that matches
\* there decides the span and the category, and it fails exactly when none
\* matches; an identifier is a Keyword if it is in the keyword set, else a
\* BuiltinType if it is in the built-in type set, else an Identifier.
C16_ClassifiesInOrder ==
    called.fn = "mTokenize" =>
        LET s == called.input
            b == LeadingBlanks(s)
            t == called.tok
            id == TokenizeCStyleIdentifier(s, b)
            num == TokenizeCStyleNumber(s, b)
            chr == TokenizeCStyleCharacterLiteral(s, b)
            str == TokenizeCStyleString(s, b)
            word == SubSeq(s, b + 1, id)
            Is(end, category) ==
                /\ t.ret
                /\ t.outBegin = b
                /\ t.outEnd = end
                /\ called.category = category
        IN /\ b = Len(s) =>
                 /\ t.ret
                 /\ t.outBegin = Len(s)
                 /\ t.outEnd = Len(s)
                 /\ called.category = "Default"
           /\ b < Len(s) =>
                 /\ t.ret <=> (id # NoMatch \/ num # NoMatch \/ chr # NoMatch \/ str # NoMatch)
                 /\ (id # NoMatch /\ word \in mKeywords) => Is(id, "Keyword")
                 /\ (id # NoMatch /\ word \notin mKeywords /\ word \in mIdentifiers)
                       => Is(id, "BuiltinType")
                 /\ (id # NoMatch /\ word \notin mKeywords /\ word \notin mIdentifiers)
                       => Is(id, "Identifier")
                 /\ (id = NoMatch /\ num # NoMatch) => Is(num, "Number")
                 /\ (id = NoMatch /\ num = NoMatch /\ chr # NoMatch) => Is(chr, "CharLiteral")
                 /\ (id = NoMatch /\ num = NoMatch /\ chr = NoMatch /\ str # NoMatch)
                       => Is(str, "String")

\* A keyword was classified after a leading blank or tab was skipped.
C16_Witness ==
    /\ called.fn = "mTokenize"
    /\ called.tok.outBegin = 1
    /\ called.tok.outEnd = 3
    /\ called.category = "Keyword"

\* C17: while an evaluation runs no frame schedules an evaluation (a step
\* that schedules one then is no frame of drawContent), a frame with the
\* evaluate button pressed included; with auto-run off, a frame with the
\* button pressed while an evaluation runs leaves m_hasUnevaluatedChanges
\* false and auto-run off, whatever else happens in it;
\* m_hasUnevaluatedChanges is never set with auto-run off, and a frame
\* without a button press, with auto-run off before and after it, never
\* schedules an evaluation: nothing follows the dropped press up.
C17_ManualRequestDropped ==
    /\ [][(m_evaluatorRunning /\ nEvals' # nEvals)
          => ~\E click, toggle \in BOOLEAN, edit \in Scripts \cup {None} :
                 DrawContent(click, toggle, edit)]_vars
    /\ [][(/\ m_evaluatorRunning
           /\ ~m_runAutomatically
           /\ m_hasUnevaluatedChanges' \/ m_runAutomatically')
          => ~\E toggle \in BOOLEAN, edit \in Scripts \cup {None} :
                 DrawContent(TRUE, toggle, edit)]_vars
    /\ [](m_hasUnevaluatedChanges => m_runAutomatically)
    /\ [][(~m_runAutomatically /\ ~m_runAutomatically' /\ nEvals' # nEvals)
          => ~\E toggle \in BOOLEAN, edit \in Scripts \cup {None} :
                 DrawContent(FALSE, toggle, edit)]_vars

\* With auto-run off, a frame was drawn while the first evaluation runs
\* (the text was edited in it): no second evaluation was scheduled and
\* m_hasUnevaluatedChanges is false.
C17_Witness ==
    /\ m_evaluatorRunning
    /\ ~m_runAutomatically
    /\ ~m_hasUnevaluatedChanges
    /\ nEvals = 1
    /\ pc[1] = "execute"
    /\ buffer[1] # text
    /\ providerValid

\* C18: the MIME handler, for a value equal to the content type, sets
\* foundCorrectType and returns true; for any other value it leaves
\* foundCorrectType as it was and returns false exactly when the value is
\* empty, or whitespace only, or ends with a newline or a carriage return.
C18_MimePredicate ==
    called.fn = "MIME" =>
        LET v == called.value
        IN IF v = called.mimeType
           THEN called.ret /\ called.found
           ELSE /\ called.found = called.before
                /\ ~called.ret <=>
                      \/ Len(v) = 0
                      \/ \A i \in 1..Len(v) : v[i] \in Whitespace
                      \/ v[Len(v)] \in {"\n", "\r"}

\* The handler rejected a value that is not the content type, is not
\* whitespace only and ends with a newline, and did not mark the file.
C18_Witness ==
    /\ called.fn = "MIME"
    /\ called.value = <<"t", "\n">>
    /\ called.mimeType = <<"t">>
    /\ ~called.ret
    /\ ~called.found

\* C19: a frame without a button press schedules an evaluation only if no
\* evaluation runs and m_hasUnevaluatedChanges is set when the auto-run
\* block is reached (it was set before the frame, or auto-run is on and was
\* switched on or the text was edited in the frame); the frame then leaves
\* the flag cleared and the project dirty and schedules one evaluation.
\* With auto-run off before and after a step, a change of the text does
\* not set the flag.
C19_AutoRunTick ==
    /\ [][(/\ nEvals' # nEvals
           /\ \E toggle \in BOOLEAN, edit \in Scripts \cup {None} :
                 DrawContent(FALSE, toggle, edit))
            =>  /\ ~m_evaluatorRunning
                /\ \/ m_hasUnevaluatedChanges
                   \/ m_runAutomatically' /\ (~m_runAutomatically \/ text' # text)
                /\ ~m_hasUnevaluatedChanges'
                /\ projectDirty'
                /\ nEvals' = nEvals + 1]_vars
    /\ [][(~m_runAutomatically /\ ~m_runAutomatically' /\ text' # text)
            => ~m_hasUnevaluatedChanges']_vars

\* The auto-run block has scheduled the evaluation now starting: the
\* project is dirty and the flag is cleared.
C19_Witness ==
    /\ projectDirty
    /\ m_runAutomatically
    /\ ~m_hasUnevaluatedChanges
    /\ nEvals = 1
    /\ pc[1] = "execute"

\* C20 as claimed: while the accept_pattern popup is open, so that its
\* confirm action can run, m_selectedPatternFile is an index of
\* m_possiblePatternFiles.
C20_SelectedIndexValid ==
    popupOpen =>
        0 <= m_selectedPatternFile /\ m_selectedPatternFile < Len(m_possiblePatternFiles)

====
